---- MODULE Spec2Model ----
(***************************************************************************)
(* Model of stl10_tools.py: the STL-10 data loaders (get_data,             *)
(* extract_images, extract_labels), the fold selection (pick_fold) and the *)
(* graph construction order of stl10_model.                                *)
(*                                                                         *)
(* numpy arrays are modelled the way numpy stores them: a buffer on a heap *)
(* plus a shape and element strides, so that views (reshape, transpose)    *)
(* share their buffer and copies (fromstring, fancy indexing) get a new    *)
(* one.  Every behaviour is one call of one function of the module: Init   *)
(* draws the call and the files it reads, the action performs the call.    *)
(***************************************************************************)
EXTENDS Integers, Sequences, FiniteSets, TLC

VARIABLES
  pc,            \* "call" before the function runs, "done" after; stl10_model steps through its statements
  call,          \* the function called and its arguments
  fs,            \* file name -> file content (bytes, or characters for the fold index file)
  heap,          \* buffer id -> the buffer's elements (numpy array storage)
  opened,        \* log of the files gfile.Open was called on, in order
  writes,        \* log of in-place element updates, <<buffer id, offset>>, in order
  ret,           \* what the call returned or raised
  fold_indices,  \* pick_fold's local fold_indices after parsing (<<>> until parsed)
  inputs,        \* stl10_model's local inputs (a symbolic tensor expression)
  shape,         \* stl10_model's local shape
  net,           \* stl10_model's local net
  graph          \* log of the library calls stl10_model made, in order

vars == <<pc, call, fs, heap, opened, writes, ret, fold_indices, inputs, shape, net, graph>>

\* ------------------------------------------------------------------ bounds
MaxBytes == 8       \* longest image file drawn for a direct extract_images call
MaxDim == 2         \* largest H, W, C drawn for a direct extract_images call
MaxLabels == 3      \* longest label file drawn over LabelBytes
MaxImages == 3      \* most images in a file read by get_data / given to pick_fold
MaxNum == 3         \* largest max_num given to get_data
MaxLines == 10      \* most lines in the fold index file
MaxRow == 2         \* most indices written on one line of the fold index file
FoldSlack == 2      \* how far outside -1..9 the drawn fold argument goes

\* ------------------------------------------------------- program constants
DATADIR == "/work/haeusser/data/stl10_binary/"
NUM_LABELS == 10
\* [96, 96, 3] in the source; scaled down, keeping three axes of which two differ.
IMAGE_SHAPE == <<2, 1, 2>>
FOLD_FILE == "path_to_stl10_binary/fold_indices.txt"

\* ------------------------------------------------------------ python values
None == [none |-> TRUE]
Pending == [kind |-> "pending"]
Raise(w, e) == [kind |-> "raise", exc |-> e, w |-> w]
Return(w, v) == [kind |-> "return", value |-> v, w |-> w]

Reverse(s) == [i \in 1..Len(s) |-> s[Len(s) + 1 - i]]

RECURSIVE Prod(_)
Prod(s) == IF s = <<>> THEN 1 ELSE Head(s) * Prod(Tail(s))

RECURSIVE Dot(_, _)
Dot(a, b) == IF a = <<>> THEN 0 ELSE Head(a) * Head(b) + Dot(Tail(a), Tail(b))

\* ------------------------------------------------------------- numpy arrays
\* Strides of a C-contiguous array of shape s, in elements.
CStrides(s) == [k \in 1..Len(s) |-> Prod(SubSeq(s, k + 1, Len(s)))]

\* The multi-index of flat position p (0-based) in C order for shape s.
Unravel(p, s) == [k \in 1..Len(s) |-> (p \div CStrides(s)[k]) % s[k]]

\* Element by 0-based multi-index.
At(h, arr, idx) == h[arr.buf][1 + Dot(idx, arr.strides)]

Size(arr) == Prod(arr.shape)

\* A new C-contiguous array holding data (a flat sequence) with shape s.
NewArray(w, data, s) ==
  [w |-> [w EXCEPT !.heap = Append(@, data)],
   arr |-> [buf |-> Len(w.heap) + 1, shape |-> s, strides |-> CStrides(s)]]

\* np.fromstring(bytes, np.uint8): a new 1-D array with a copy of the bytes.
fromstring(w, bytes) == NewArray(w, bytes, <<Len(bytes)>>)

\* A reshape that drops a trailing partial block instead of raising.
reshape_truncating(arr, newshape) ==
  LET rest == Tail(newshape)
      s == <<Size(arr) \div Prod(rest)>> \o rest
  IN [kind |-> "return",
      value |-> [buf |-> arr.buf, shape |-> s, strides |-> CStrides(s)]]

\* arr.reshape(-1, d1, .., dk) of a C-contiguous array: a view on the same
\* buffer; ValueError when the size is no multiple of d1*..*dk.
reshape(arr, newshape) ==
  LET rest == Tail(newshape)
      known == Prod(rest)
      s == <<Size(arr) \div known>> \o rest
  IN IF Size(arr) % known # 0
       THEN [kind |-> "raise", exc |-> "ValueError"]
       ELSE [kind |-> "return",
             value |-> [buf |-> arr.buf, shape |-> s, strides |-> CStrides(s)]]

\* np.transpose without its axes argument: all axes reversed.
transpose_reversed(arr, axes) ==
  [buf |-> arr.buf, shape |-> Reverse(arr.shape), strides |-> Reverse(arr.strides)]

\* np.transpose(arr, axes): a view; axis i of the result is axis axes[i] of arr.
transpose(arr, axes) ==
  [buf |-> arr.buf,
   shape |-> [i \in 1..Len(axes) |-> arr.shape[axes[i] + 1]],
   strides |-> [i \in 1..Len(axes) |-> arr.strides[axes[i] + 1]]]

\* arr[idx] for an integer index array idx (fancy indexing on axis 0): a new
\* C-contiguous array; IndexError when an index is out of bounds.
take(w, arr, idx) ==
  LET s == <<Len(idx)>> \o Tail(arr.shape)
      data == [p \in 1..Prod(s) |->
                 LET mi == Unravel(p - 1, s)
                 IN At(w.heap, arr, <<idx[mi[1] + 1]>> \o Tail(mi))]
  IN IF \E k \in 1..Len(idx) : idx[k] >= arr.shape[1]
       THEN Raise(w, "IndexError")
       ELSE LET n == NewArray(w, data, s) IN Return(n.w, n.arr)

\* arr -= k computed in unbounded integers.
isub_nowrap(w, arr, k) ==
  LET off(i) == 1 + (i - 1) * arr.strides[1]
      n == arr.shape[1]
  IN [w EXCEPT
        !.heap[arr.buf] = [o \in 1..Len(@) |->
                             IF \E i \in 1..n : off(i) = o THEN @[o] - k ELSE @[o]],
        !.writes = @ \o [i \in 1..n |-> <<arr.buf, off(i)>>]]

\* arr -= k on a 1-D uint8 array: every element updated in place, modulo 2^8.
isub(w, arr, k) ==
  LET off(i) == 1 + (i - 1) * arr.strides[1]
      n == arr.shape[1]
  IN [w EXCEPT
        !.heap[arr.buf] = [o \in 1..Len(@) |->
                             IF \E i \in 1..n : off(i) = o THEN (@[o] - k) % 256 ELSE @[o]],
        !.writes = @ \o [i \in 1..n |-> <<arr.buf, off(i)>>]]

\* ------------------------------------------------------------------- files
\* gfile.Open(filename) followed by f.read().
Open(w, filename) ==
  [w |-> [w EXCEPT !.opened = Append(@, filename)], data |-> fs[filename]]

\* extract_images(filename, shape)
extract_images(w, filename, shp) ==
  LET f == Open(w, filename)
      a == fromstring(f.w, f.data)
      r == reshape(a.arr, <<-1>> \o Reverse(shp))
  IN IF r.kind = "raise" THEN Raise(a.w, r.exc)
     ELSE Return(a.w, transpose(r.value, <<0, 3, 2, 1>>))

\* extract_labels decrementing the labels twice.
extract_labels_twice(w, filename) ==
  LET f == Open(w, filename)
      a == fromstring(f.w, f.data)
  IN Return(isub(isub(a.w, a.arr, 1), a.arr, 1), a.arr)

\* extract_labels(filename)
extract_labels(w, filename) ==
  LET f == Open(w, filename)
      a == fromstring(f.w, f.data)
  IN Return(isub(a.w, a.arr, 1), a.arr)

\* rng.choice(n, size): sampling with replacement.
choice_with_replacement(n, size) == [1..size -> 0..(n - 1)]

\* rng.choice(n, size, False): the orders of size distinct values of 0..n-1.
choice(n, size) ==
  {p \in [1..size -> 0..(n - 1)] : \A i, j \in 1..size : i # j => p[i] # p[j]}

\* get_data(name, max_num), train and test branches.
get_data_labeled(w, split) ==
  LET x == extract_images(w, DATADIR \o split \o "_X.bin", IMAGE_SHAPE)
      y == extract_labels(x.w, DATADIR \o split \o "_y.bin")
  IN IF x.kind = "raise" THEN x
     ELSE Return(y.w, <<x.value, y.value>>)

\* get_data(name, max_num): the set of outcomes, one per draw of the generator.
get_data(w, name, max_num) ==
  IF name = "train" THEN {get_data_labeled(w, "train")}
  ELSE IF name = "test" THEN {get_data_labeled(w, "test")}
  ELSE IF name = "unlabeled" THEN
    LET res == extract_images(w, DATADIR \o "unlabeled_X.bin", IMAGE_SHAPE)
        num_images == res.value.shape[1]
    IN IF res.kind = "raise" THEN {res}
       ELSE IF num_images > max_num THEN
         IF max_num < 0 THEN {Raise(res.w, "ValueError")}
         ELSE {LET t == take(res.w, res.value, p) IN Return(t.w, <<t.value, None>>) :
                 p \in choice(num_images, max_num)}
       ELSE {Return(res.w, <<res.value, None>>)}
  ELSE {Return(w, None)}

\* ---------------------------------------------------------- fold index file
Digits == <<"0", "1", "2", "3", "4", "5", "6", "7", "8", "9">>
IsDigit(c) == \E d \in 1..10 : Digits[d] = c
DigitOf(c) == (CHOOSE d \in 1..10 : Digits[d] = c) - 1

\* Iterating a text file: its lines, each with its line end when it has one.
RECURSIVE Lines(_, _)
Lines(text, cur) ==
  IF text = <<>> THEN (IF cur = <<>> THEN <<>> ELSE <<cur>>)
  ELSE IF Head(text) = "\n" THEN <<Append(cur, "\n")>> \o Lines(Tail(text), <<>>)
  ELSE Lines(Tail(text), Append(cur, Head(text)))

\* line.split(' '): the pieces between single spaces, empty pieces included.
RECURSIVE split(_, _)
split(line, cur) ==
  IF line = <<>> THEN <<cur>>
  ELSE IF Head(line) = " " THEN <<cur>> \o split(Tail(line), <<>>)
  ELSE split(Tail(line), Append(cur, Head(line)))

\* s[:-1]
DropLast(s) == SubSeq(s, 1, Len(s) - 1)

\* A string read as a decimal integer; only called on strings of digits.
RECURSIVE ToInt(_, _)
ToInt(str, acc) ==
  IF str = <<>> THEN acc ELSE ToInt(Tail(str), 10 * acc + DigitOf(Head(str)))

IsIntLiteral(str) == str # <<>> /\ \A i \in 1..Len(str) : IsDigit(str[i])

\* np.array(rows).astype(np.uint16) for a list of lists of strings:
\* ValueError when the rows differ in length or a string is no integer.
astype_uint16(rows) ==
  IF \E i, j \in 1..Len(rows) : Len(rows[i]) # Len(rows[j])
    THEN [kind |-> "raise", exc |-> "ValueError"]
  ELSE IF \E i \in 1..Len(rows) : \E k \in 1..Len(rows[i]) : ~IsIntLiteral(rows[i][k])
    THEN [kind |-> "raise", exc |-> "ValueError"]
  ELSE [kind |-> "return",
        value |-> [i \in 1..Len(rows) |->
                     [k \in 1..Len(rows[i]) |-> ToInt(rows[i][k], 0) % 65536]]]

\* The tokens pick_fold keeps of one line of the fold index file.
line_tokens(line) == DropLast(split(line, <<>>))

\* pick_fold, the loop reading the fold index file and the conversion after it.
read_fold_indices(w) ==
  LET f == Open(w, FOLD_FILE)
      ls == Lines(f.data, <<>>)
      rows == [i \in 1..Len(ls) |-> line_tokens(ls[i])]
      t == astype_uint16(rows)
  IN IF t.kind = "raise" THEN Raise(f.w, t.exc) ELSE Return(f.w, t.value)

WithFolds(r, fi) == [k \in DOMAIN r \cup {"fold_indices"} |->
                      IF k = "fold_indices" THEN fi ELSE r[k]]

\* table[i] for an integer i: row i, counted from the end when i is negative.
row_in_bounds(table, i) == -Len(table) <= i /\ i < Len(table)
index_row_one_based(table, i) == table[IF i - 1 < 0 THEN Len(table) + i ELSE i]
index_row(table, i) == table[IF i < 0 THEN Len(table) + i + 1 ELSE i + 1]

\* The assertion on the fold argument.
fold_in_range_to_ten(fold) == -1 <= fold /\ fold <= 10
fold_in_range(fold) == -1 <= fold /\ fold <= 9

\* The test that a fold, not all data, was asked for.
selects_fold_from_minus_one(fold) == fold >= -1
selects_fold(fold) == fold > -1

\* pick_fold(images, labels, fold)
pick_fold(w, images, labels, fold) ==
  IF ~fold_in_range(fold) THEN WithFolds(Raise(w, "AssertionError"), <<>>)
  ELSE IF selects_fold(fold) THEN
    LET t == read_fold_indices(w)
        im == take(t.w, images, index_row(t.value, fold))
        lb == take(im.w, labels, index_row(t.value, fold))
    IN IF t.kind = "raise" THEN WithFolds(t, <<>>)
       ELSE IF ~row_in_bounds(t.value, fold) THEN WithFolds(Raise(t.w, "IndexError"), t.value)
       ELSE IF im.kind = "raise" THEN WithFolds(im, t.value)
       ELSE IF lb.kind = "raise" THEN WithFolds(lb, t.value)
       ELSE WithFolds(Return(lb.w, <<im.value, lb.value>>), t.value)
  ELSE WithFolds(Return(w, <<images, labels>>), <<>>)

\* ------------------------------------------------------------- stl10_model
\* The layers stl10_model stacks on the normalised input, in source order.
Layer(fn, num, kernel, stride, scope) ==
  [fn |-> fn, num |-> num, kernel |-> kernel, stride |-> stride, scope |-> scope]

Layers(emb_size) ==
  << Layer("conv2d", 32, <<3, 3>>, 1, "conv_s2"),
     Layer("conv2d", 64, <<3, 3>>, 2, "conv1"),
     Layer("max_pool2d", 0, <<3, 3>>, 2, "pool1"),
     Layer("conv2d", 64, <<3, 3>>, 1, "conv2"),
     Layer("conv2d", 128, <<3, 3>>, 1, "conv2_2"),
     Layer("max_pool2d", 0, <<2, 2>>, 2, "pool2"),
     Layer("conv2d", 128, <<3, 3>>, 1, "conv3_1"),
     Layer("conv2d", 256, <<3, 3>>, 1, "conv3_2"),
     Layer("max_pool2d", 0, <<2, 2>>, 2, "pool3"),
     Layer("conv2d", 128, <<3, 3>>, 1, "conv4"),
     Layer("flatten", 0, <<>>, 1, "flatten"),
     Layer("fully_connected", emb_size, <<>>, 1, "fc1") >>

\* A library call: the operation, the tensor it was given, its other argument.
LibCall(op, x, arg) == [op |-> op, x |-> x, arg |-> arg]

\* Augmenting whenever a function is given, training or not.
should_augment_always(is_training, augmentation_function) ==
  augmentation_function # None

\* The condition under which stl10_model calls the augmentation function.
should_augment(is_training, augmentation_function) ==
  is_training /\ augmentation_function # None

\* The shape stl10_model passes on: new_shape when given, else img_shape.
pick_shape(new_shape, img_shape) ==
  IF new_shape # None THEN new_shape ELSE img_shape

LayersDone == Len(SelectSeq(graph, LAMBDA c : c.op = "layer"))

World == [heap |-> heap, opened |-> opened, writes |-> writes]

Commit(r) ==
  /\ ret' = [k \in DOMAIN r \ {"w", "fold_indices"} |-> r[k]]
  /\ heap' = r.w.heap
  /\ opened' = r.w.opened
  /\ writes' = r.w.writes
  /\ pc' = "done"

Done(fn) == pc = "done" /\ call.fn = fn

ModelVars == <<inputs, shape, net, graph>>

\* ------------------------------------------------------------ drawn inputs
ByteVals == {0, 255}
LabelBytes == {0, 1, NUM_LABELS, 255}
Seeds == {0, 250}
SplitNames == {"train", "test", "unlabeled", "validation"}

SeqsUpTo(S, n) == UNION {[1..k -> S] : k \in 0..n}

\* An image file of n images of IMAGE_SHAPE plus extra trailing bytes, all
\* images of the file different.
ImageFile(n, extra, seed) ==
  [p \in 1..(n * Prod(IMAGE_SHAPE) + extra) |-> (seed + p - 1) % 256]

\* A label file of n labels in 1..NUM_LABELS.
LabelFile(n, seed) == [i \in 1..n |-> ((seed + i - 1) % NUM_LABELS) + 1]

NoModel ==
  /\ inputs = None /\ shape = None /\ net = None /\ graph = <<>>

Fresh ==
  /\ pc = "call" /\ opened = <<>> /\ writes = <<>> /\ ret = Pending
  /\ fold_indices = <<>>

InitImages ==
  \E bytes \in SeqsUpTo(ByteVals, MaxBytes), H \in 1..MaxDim, W \in 1..MaxDim, C \in 1..MaxDim :
    /\ call = [fn |-> "extract_images", filename |-> "X.bin", shape |-> <<H, W, C>>]
    /\ fs = [f \in {"X.bin"} |-> bytes]
    /\ heap = <<>>
    /\ Fresh /\ NoModel

InitLabels ==
  \E bytes \in SeqsUpTo(LabelBytes, MaxLabels) \cup {<<b, (b + 1) % 256>> : b \in 0..255} :
    /\ call = [fn |-> "extract_labels", filename |-> "y.bin"]
    /\ fs = [f \in {"y.bin"} |-> bytes]
    /\ heap = <<bytes>>      \* an array the caller already holds
    /\ Fresh /\ NoModel

InitGetData ==
  \E name \in SplitNames, max_num \in (-1)..MaxNum, n \in 0..MaxImages,
     extra \in 0..1, seed \in Seeds :
    /\ call = [fn |-> "get_data", name |-> name, max_num |-> max_num]
    /\ fs = [f \in {DATADIR \o "train_X.bin", DATADIR \o "train_y.bin",
                     DATADIR \o "test_X.bin", DATADIR \o "test_y.bin",
                     DATADIR \o "unlabeled_X.bin"} |->
               IF f = DATADIR \o "train_X.bin" THEN ImageFile(n, extra, seed)
               ELSE IF f = DATADIR \o "train_y.bin" THEN LabelFile(n, seed)
               ELSE IF f = DATADIR \o "test_X.bin" THEN ImageFile(n, extra, seed + 1)
               ELSE IF f = DATADIR \o "test_y.bin" THEN LabelFile(n, seed + 1)
               ELSE ImageFile(n, extra, seed + 2)]
    /\ heap = <<>>
    /\ Fresh /\ NoModel

\* The decimal digits of a natural number.
RECURSIVE NatToStr(_)
NatToStr(n) == IF n < 10 THEN <<Digits[n + 1]>>
               ELSE NatToStr(n \div 10) \o <<Digits[(n % 10) + 1]>>

RECURSIVE Join(_)
Join(toks) == IF toks = <<>> THEN <<>>
              ELSE IF Len(toks) = 1 THEN NatToStr(toks[1])
              ELSE NatToStr(toks[1]) \o <<" ">> \o Join(Tail(toks))

Rotate(s, i) == [k \in 1..Len(s) |-> s[((k - 1 + i) % Len(s)) + 1]]

TrailModes == {"all", "none", "all_but_first"}
HasTrail(mode, i) == mode = "all" \/ (mode = "all_but_first" /\ i > 1)

\* A fold index file of K lines; line i holds row rotated by i - 1, then a
\* space or not, then the line end (the last line: or not).
RECURSIVE FoldFile(_, _, _, _, _)
FoldFile(row, K, mode, finalNL, i) ==
  IF i > K THEN <<>>
  ELSE Join(Rotate(row, i - 1))
       \o (IF HasTrail(mode, i) THEN <<" ">> ELSE <<>>)
       \o (IF i < K \/ finalNL THEN <<"\n">> ELSE <<>>)
       \o FoldFile(row, K, mode, finalNL, i + 1)

BigImages == 11
IdxVals == 0..(MaxImages - 1) \cup {BigImages - 1}
LineCounts == {0, 1, MaxLines}

\* The caller's images: what extract_images returns for n images of IMAGE_SHAPE.
CallerImages(n) ==
  transpose(reshape([buf |-> 1, shape |-> <<n * Prod(IMAGE_SHAPE)>>, strides |-> <<1>>],
                    <<-1>> \o Reverse(IMAGE_SHAPE)).value, <<0, 3, 2, 1>>)
CallerLabels(n) == [buf |-> 2, shape |-> <<n>>, strides |-> <<1>>]

\* The buffers of the caller's images and labels.
CallerHeap(n) == <<ImageFile(n, 0, n), [i \in 1..n |-> (n + i) % NUM_LABELS]>>

InitPickFold ==
  \E row \in SeqsUpTo(IdxVals, MaxRow) \ {<<>>}, K \in LineCounts, mode \in TrailModes,
     finalNL \in BOOLEAN, fold \in (-1 - FoldSlack)..(9 + FoldSlack),
     n \in {MaxImages, BigImages} :
    /\ call = [fn |-> "pick_fold", images |-> CallerImages(n), labels |-> CallerLabels(n),
               fold |-> fold]
    /\ fs = [f \in {FOLD_FILE} |-> FoldFile(row, K, mode, finalNL, 1)]
    /\ heap = CallerHeap(n)
    /\ Fresh /\ NoModel

ShapeA == [dims |-> <<96, 96, 3>>]
ShapeB == [dims |-> <<64, 64, 3>>]
Augment == [fn |-> "apply_augmentation"]

InitModel ==
  \E is_training \in BOOLEAN, augmentation_function \in {None, Augment},
     img_shape \in {None, ShapeA}, new_shape \in {None, ShapeB},
     image_summary \in BOOLEAN, emb_size \in {64, 128} :
    /\ call = [fn |-> "stl10_model", inputs |-> [op |-> "input"],
               is_training |-> is_training,
               augmentation_function |-> augmentation_function,
               emb_size |-> emb_size, img_shape |-> img_shape, new_shape |-> new_shape,
               image_summary |-> image_summary]
    /\ fs = [f \in {} |-> <<>>]
    /\ heap = <<>>
    /\ Fresh /\ NoModel

\* ----------------------------------------------------------------- actions
DataVars == <<call, fs, heap, opened, writes, fold_indices>>

\* inputs = tf.cast(inputs, tf.float32)
ModelCast ==
  /\ pc = "call" /\ call.fn = "stl10_model"
  /\ inputs' = LibCall("cast", call.inputs, None)
  /\ graph' = Append(graph, inputs')
  /\ pc' = "resize"
  /\ UNCHANGED <<DataVars, ret, shape, net>>

\* if new_shape is not None: ... else: shape = img_shape
ModelResize ==
  /\ pc = "resize"
  /\ shape' = pick_shape(call.new_shape, call.img_shape)
  /\ IF call.new_shape # None
       THEN /\ inputs' = LibCall("resize_images", inputs, SubSeq(call.new_shape.dims, 1, 2))
            /\ graph' = Append(graph, inputs')
       ELSE UNCHANGED <<inputs, graph>>
  /\ pc' = "augment"
  /\ UNCHANGED <<DataVars, ret, net>>

\* if is_training and augmentation_function is not None: ...
ModelAugment ==
  /\ pc = "augment"
  /\ IF should_augment(call.is_training, call.augmentation_function)
       THEN /\ inputs' = LibCall("augmentation_function", inputs, shape)
            /\ graph' = Append(graph, inputs')
       ELSE UNCHANGED <<inputs, graph>>
  /\ pc' = "summary"
  /\ UNCHANGED <<DataVars, ret, shape, net>>

\* if image_summary: tf.image_summary('Inputs', inputs, max_images=3)
ModelSummary ==
  /\ pc = "summary"
  /\ IF call.image_summary
       THEN graph' = Append(graph, LibCall("image_summary", inputs, None))
       ELSE UNCHANGED graph
  /\ pc' = "normalise"
  /\ UNCHANGED <<DataVars, ret, inputs, shape, net>>

\* net = inputs; net = (net - 128.0) / 128.0
ModelNormalise ==
  /\ pc = "normalise"
  /\ net' = LibCall("normalise", inputs, None)
  /\ graph' = Append(graph, net')
  /\ pc' = "layers"
  /\ UNCHANGED <<DataVars, ret, inputs, shape>>

\* net = slim.<layer>(net, ..., scope=...), one layer per step
ModelLayer ==
  /\ pc = "layers"
  /\ LayersDone < Len(Layers(call.emb_size))
  /\ net' = LibCall("layer", net, Layers(call.emb_size)[LayersDone + 1])
  /\ graph' = Append(graph, net')
  /\ pc' = "layers"
  /\ UNCHANGED <<DataVars, ret, inputs, shape>>

\* return emb
ModelReturn ==
  /\ pc = "layers"
  /\ LayersDone = Len(Layers(call.emb_size))
  /\ ret' = [kind |-> "return", value |-> net]
  /\ pc' = "done"
  /\ UNCHANGED <<DataVars, inputs, shape, net, graph>>

SpecModel == InitModel /\ [][ModelCast \/ ModelResize \/ ModelAugment \/ ModelSummary
                              \/ ModelNormalise \/ ModelLayer \/ ModelReturn]_vars

PickFold ==
  /\ pc = "call" /\ call.fn = "pick_fold"
  /\ \E r \in {pick_fold(World, call.images, call.labels, call.fold)} :
       Commit(r) /\ fold_indices' = r.fold_indices
  /\ UNCHANGED <<call, fs, ModelVars>>

SpecPickFold == InitPickFold /\ [][PickFold]_vars

ExtractImages ==
  /\ pc = "call" /\ call.fn = "extract_images"
  /\ \E r \in {extract_images(World, call.filename, call.shape)} : Commit(r)
  /\ UNCHANGED <<call, fs, fold_indices, ModelVars>>

ExtractLabels ==
  /\ pc = "call" /\ call.fn = "extract_labels"
  /\ \E r \in {extract_labels(World, call.filename)} : Commit(r)
  /\ UNCHANGED <<call, fs, fold_indices, ModelVars>>

GetData ==
  /\ pc = "call" /\ call.fn = "get_data"
  /\ \E r \in get_data(World, call.name, call.max_num) : Commit(r)
  /\ UNCHANGED <<call, fs, fold_indices, ModelVars>>

SpecLoad == (InitImages \/ InitLabels \/ InitGetData)
            /\ [][ExtractImages \/ ExtractLabels \/ GetData]_vars

SpecFrame == (InitPickFold \/ InitLabels) /\ [][PickFold \/ ExtractLabels]_vars

Init == InitImages \/ InitLabels \/ InitGetData \/ InitPickFold \/ InitModel

Next == \/ ExtractImages \/ ExtractLabels \/ GetData \/ PickFold
        \/ ModelCast \/ ModelResize \/ ModelAugment \/ ModelSummary
        \/ ModelNormalise \/ ModelLayer \/ ModelReturn

Spec == Init /\ [][Next]_vars

\* ------------------------------------------------------------------ claims
\* The arguments and files of the current call, as the claims name them.
CallerN == call.labels.shape[1]
FoldText == fs[FOLD_FILE]
ImgBytes == fs[call.filename]
ImgH == call.shape[1]
ImgW == call.shape[2]
ImgC == call.shape[3]
ImgBlock == ImgH * ImgW * ImgC
Raised(e) == ret.kind = "raise" /\ ret.exc = e

\* The inner index space (y, x, c) of an image batch of shape s.
Inner(s) == (0..(s[2] - 1)) \X (0..(s[3] - 1)) \X (0..(s[4] - 1))

\* C1: pick_fold asserts -1 <= fold <= 9: outside that range the call raises
\* AssertionError before the fold index file is opened and returns nothing;
\* inside it the assertion passes.
C1_AssertionGuardsFold ==
  Done("pick_fold") =>
    IF call.fold < -1 \/ call.fold > 9
      THEN Raised("AssertionError") /\ opened = <<>> /\ "value" \notin DOMAIN ret
      ELSE ~Raised("AssertionError")

C1_Witness ==
  Done("pick_fold") /\ call.fold > 9 /\ Raised("AssertionError") /\ FoldText # <<>>

C3_AllDataIsIdentity ==
  (Done("pick_fold") /\ call.fold = -1) =>
    /\ ret.kind = "return"
    /\ ret.value = <<call.images, call.labels>>
    /\ heap = CallerHeap(CallerN)
    /\ opened = <<>>

C3_Witness ==
  Done("pick_fold") /\ call.fold = -1 /\ ret.kind = "return" /\ FoldText # <<>>

\* The integers written on a line, split at any whitespace.
RECURSIVE IntsOnLine(_, _)
IntsOnLine(line, cur) ==
  IF line = <<>> THEN (IF cur = <<>> THEN <<>> ELSE <<ToInt(cur, 0)>>)
  ELSE IF Head(line) \in {" ", "\n"}
    THEN (IF cur = <<>> THEN <<>> ELSE <<ToInt(cur, 0)>>) \o IntsOnLine(Tail(line), <<>>)
  ELSE IntsOnLine(Tail(line), Append(cur, Head(line)))

\* C4: every integer written on a line of the fold index file becomes an
\* index of that line's fold row, in the order written, none dropped and none
\* added, whether or not a space follows the line's last integer.
C4_EveryIntegerOnLineIsRead ==
  (Done("pick_fold") /\ opened # <<>>) =>
    LET ls == Lines(FoldText, <<>>)
    IN /\ ~Raised("ValueError")
       /\ Len(fold_indices) = Len(ls)
       /\ \A i \in 1..Len(ls) : fold_indices[i] = IntsOnLine(ls[i], <<>>)

\* C5: extract_labels returns a 1-D uint8 vector with one label per byte of
\* the file, in file order, each b - 1 modulo 256; for b in 1..NUM_LABELS
\* that is b - 1, in 0..NUM_LABELS-1.
C5_LabelsZeroIndexed ==
  Done("extract_labels") =>
    LET bytes == fs[call.filename]
    IN /\ ret.kind = "return"
       /\ Len(ret.value.shape) = 1 /\ ret.value.shape[1] = Len(bytes)
       /\ \A i \in 1..Len(bytes) :
            LET l == At(heap, ret.value, <<i - 1>>)
            IN /\ l \in 0..255
               /\ l = (bytes[i] - 1) % 256
               /\ bytes[i] \in 1..NUM_LABELS => (l = bytes[i] - 1 /\ l \in 0..(NUM_LABELS - 1))

C5_Witness ==
  /\ Done("extract_labels") /\ ret.kind = "return"
  /\ Len(fs[call.filename]) = 2
  /\ fs[call.filename][1] = 0 /\ At(heap, ret.value, <<0>>) = 255
  /\ fs[call.filename][2] = 1 /\ At(heap, ret.value, <<1>>) = 0

\* C6: extract_images on N*H*W*C bytes returns an array of shape [N, H, W, C]
\* whose element [n, y, x, c] is the byte at offset n*C*W*H + c*W*H + x*H + y,
\* so that every byte of the file appears at exactly one position, unchanged.
C6_ImagesReindexBytes ==
  Done("extract_images") =>
    LET N == Len(ImgBytes) \div ImgBlock
        arr == ret.value
        Index == (0..(N - 1)) \X (0..(ImgH - 1)) \X (0..(ImgW - 1)) \X (0..(ImgC - 1))
    IN /\ Len(ImgBytes) % ImgBlock = 0 => ret.kind = "return"
       /\ ret.kind = "return" =>
            /\ arr.shape = <<N, ImgH, ImgW, ImgC>>
            /\ \A i \in Index :
                 At(heap, arr, i)
                   = ImgBytes[1 + i[1] * ImgC * ImgW * ImgH + i[4] * ImgW * ImgH
                                + i[3] * ImgH + i[2]]
            /\ \A o \in 1..Len(ImgBytes) :
                 Cardinality({i \in Index : 1 + Dot(i, arr.strides) = o}) = 1

C6_Witness ==
  /\ Done("extract_images") /\ ret.kind = "return"
  /\ call.shape = <<2, 1, 2>> /\ ret.value.shape[1] = 2
  /\ ImgBytes = <<0, 255, 0, 0, 0, 0, 0, 0>>
  /\ At(heap, ret.value, <<0, 1, 0, 0>>) = 255

\* The element [y, x, c] of image n of an image file of IMAGE_SHAPE images.
FileImage(bytes, n) ==
  [i \in Inner(<<1>> \o IMAGE_SHAPE) |->
     bytes[1 + n * Prod(IMAGE_SHAPE) + i[3] * IMAGE_SHAPE[2] * IMAGE_SHAPE[1]
             + i[2] * IMAGE_SHAPE[1] + i[1]]]

\* Image k of a returned image batch.
BatchImage(arr, k) ==
  [i \in Inner(<<1>> \o IMAGE_SHAPE) |-> At(heap, arr, <<k, i[1], i[2], i[3]>>)]

UnlabeledBytes == fs[DATADIR \o "unlabeled_X.bin"]
UnlabeledN == Len(UnlabeledBytes) \div Prod(IMAGE_SHAPE)
UnlabeledCall ==
  /\ Done("get_data") /\ call.name = "unlabeled" /\ call.max_num >= 0
  /\ Len(UnlabeledBytes) % Prod(IMAGE_SHAPE) = 0

\* C7: get_data('unlabeled', max_num) on a file of n images returns
\* (images, None) with min(n, max_num) images: all n in file order when
\* n <= max_num, else max_num images of the file from pairwise distinct
\* positions.
C7_UnlabeledSample ==
  UnlabeledCall =>
    LET n == UnlabeledN
        m == call.max_num
        im == ret.value[1]
    IN /\ ret.kind = "return"
       /\ ret.value[2] = None
       /\ im.shape = <<IF n <= m THEN n ELSE m>> \o IMAGE_SHAPE
       /\ n <= m => \A k \in 0..(n - 1) : BatchImage(im, k) = FileImage(UnlabeledBytes, k)
       /\ n > m => \E p \in [0..(m - 1) -> 0..(n - 1)] :
                     /\ \A j, k \in 0..(m - 1) : j # k => p[j] # p[k]
                     /\ \A k \in 0..(m - 1) :
                          BatchImage(im, k) = FileImage(UnlabeledBytes, p[k])

C7_Witness ==
  /\ UnlabeledCall /\ ret.kind = "return"
  /\ UnlabeledN = 3 /\ call.max_num = 2
  /\ BatchImage(ret.value[1], 0) = FileImage(UnlabeledBytes, 2)
  /\ BatchImage(ret.value[1], 1) = FileImage(UnlabeledBytes, 0)

\* C8: when the number of bytes read is no multiple of H*W*C, extract_images
\* raises and returns no array: the trailing partial image is neither
\* dropped nor padded.
C8_ShapeMismatchRaises ==
  (Done("extract_images") /\ Len(ImgBytes) % ImgBlock # 0) =>
    Raised("ValueError") /\ "value" \notin DOMAIN ret

C8_Witness ==
  /\ Done("extract_images") /\ Len(ImgBytes) % ImgBlock # 0
  /\ Len(ImgBytes) > ImgBlock /\ Raised("ValueError")

\* The library calls stl10_model makes for its arguments, in order.
ExpectedOps(c) ==
  <<"cast">>
  \o (IF c.new_shape # None THEN <<"resize_images">> ELSE <<>>)
  \o (IF c.is_training /\ c.augmentation_function # None
        THEN <<"augmentation_function">> ELSE <<>>)
  \o (IF c.image_summary THEN <<"image_summary">> ELSE <<>>)
  \o <<"normalise">>
  \o [i \in 1..12 |-> "layer"]

ScopeOrder == <<"conv_s2", "conv1", "pool1", "conv2", "conv2_2", "pool2",
                "conv3_1", "conv3_2", "pool3", "conv4", "flatten", "fc1">>

\* C9: stl10_model calls, in this order: cast, resize (only when new_shape is
\* given), augmentation, optional image summary, normalisation, then the
\* layers conv_s2 .. fc1.  The augmentation function is called exactly once
\* when is_training and it is not None, never otherwise, on the already
\* resized inputs and with new_shape if given, else img_shape.
C9_PreprocessingOrder ==
  call.fn = "stl10_model" =>
    LET want == ExpectedOps(call)
        layers == SelectSeq(graph, LAMBDA g : g.op = "layer")
        augs == SelectSeq(graph, LAMBDA g : g.op = "augmentation_function")
        resized == IF call.new_shape # None
                     THEN [op |-> "resize_images",
                           x |-> [op |-> "cast", x |-> call.inputs, arg |-> None],
                           arg |-> SubSeq(call.new_shape.dims, 1, 2)]
                     ELSE [op |-> "cast", x |-> call.inputs, arg |-> None]
    IN /\ Len(graph) <= Len(want)
       /\ \A i \in 1..Len(graph) : graph[i].op = want[i]
       /\ \A i \in 2..Len(graph) : graph[i].x = graph[i - 1]
                                     \/ (graph[i - 1].op = "image_summary" /\ graph[i].x = graph[i - 1].x)
       /\ \A i \in 1..Len(layers) : layers[i].arg.scope = ScopeOrder[i]
       /\ Len(augs) <= 1
       /\ \A i \in 1..Len(augs) :
            /\ augs[i].x = resized
            /\ augs[i].arg = (IF call.new_shape # None THEN call.new_shape ELSE call.img_shape)
       /\ pc \in {"summary", "normalise", "layers", "done"} =>
            (Len(augs) = 1 <=> (call.is_training /\ call.augmentation_function # None))
       /\ pc = "done" => (Len(graph) = Len(want) /\ ret.value = graph[Len(graph)])

C9_Witness ==
  /\ call.fn = "stl10_model" /\ pc = "done"
  /\ call.is_training /\ call.augmentation_function # None
  /\ call.new_shape # None /\ call.img_shape # None /\ call.image_summary
  /\ Len(SelectSeq(graph, LAMBDA g : g.op = "augmentation_function")) = 1

\* C10: loaded data is not mutated: pick_fold leaves the caller's images and
\* labels unchanged for every fold in -1..9 and updates nothing in place;
\* the only in-place update, the decrement in extract_labels, goes to the
\* array extract_labels created, once per loaded label.
C10_NoMutationOfLoadedData ==
  /\ (Done("pick_fold") /\ call.fold \in -1..9) =>
       /\ writes = <<>>
       /\ SubSeq(heap, 1, 2) = CallerHeap(CallerN)
  /\ Done("extract_labels") =>
       LET bytes == fs[call.filename]
       IN /\ heap[1] = bytes
          /\ ret.value.buf > 1
          /\ Len(writes) = Len(bytes)
          /\ \A i \in 1..Len(bytes) : writes[i] = <<ret.value.buf, i>>

C10_Witness ==
  /\ Done("extract_labels") /\ Len(writes) = 3 /\ heap[1] # heap[2]

====
